---- MODULE Spec2Model ----
(***************************************************************************)
(* Model of the NIST 2.0 recommendation engine (src/api/index.py): the     *)
(* blocking endpoint /process_survey/<id>, the two streaming endpoints     *)
(* /process_survey_stream/<id> and /process_survey_sse/<id>, and the       *)
(* retrying generative call generate_gpt_recommendation.                   *)
(*                                                                         *)
(* One behaviour of Spec is one HTTP request.  The upstream survey API and *)
(* the generative model are the environment: what they answer is chosen    *)
(* nondeterministically.  A streaming generator is suspended at each yield *)
(* it has executed; one action resumes it and runs it to its next yield.   *)
(* GenSpec exercises generate_gpt_recommendation on its own, with every    *)
(* retry budget up to MaxRetries.  LiveSpec is a streaming request whose   *)
(* client stays connected; TwinSpec serves the same request by the plain   *)
(* stream route and then by the SSE route.                                 *)
(***************************************************************************)
EXTENDS Integers, Sequences, FiniteSets, TLC

(***************************************************************************)
(* Bounds of the model.                                                    *)
(***************************************************************************)
MaxTasks == 2          \* longest task list the upstream API returns
MaxRetries == 3        \* largest retry budget passed to a direct generate call

(***************************************************************************)
(* Program constants.                                                      *)
(***************************************************************************)
DefaultRetries == 3    \* generate_gpt_recommendation(prompt, retries=3, ...)
DefaultDelay == 10     \* generate_gpt_recommendation(..., delay=10)
MaxScore == 5          \* highest maturity level of the score ladder
MaxPercentage == 100   \* highest percentage performance (0-100%)
HttpOk == 200          \* status_code the handlers accept

Priorities == {"Critical", "High", "Medium", "Low"}

(***************************************************************************)
(* determine_priority(score)                                               *)
(***************************************************************************)
\* determine_priority with strict comparisons only.
determine_priority_strict(score) ==
    IF score < 1 THEN "Critical"
    ELSE IF score < 3 THEN "High"
    ELSE IF score < 4 THEN "Medium"
    ELSE "Low"

determine_priority(score) ==
    IF score <= 1 THEN "Critical"
    ELSE IF score = 2 THEN "High"
    ELSE IF score = 3 THEN "Medium"
    ELSE "Low"

(***************************************************************************)
(* determine_priority_by_percentage(percentage_score)                      *)
(***************************************************************************)
\* determine_priority_by_percentage with strict comparisons only.
determine_priority_by_percentage_strict(percentage_score) ==
    IF percentage_score = 0 THEN "Critical"
    ELSE IF percentage_score < 25 THEN "Critical"
    ELSE IF percentage_score < 50 THEN "High"
    ELSE IF percentage_score < 75 THEN "Medium"
    ELSE "Low"

determine_priority_by_percentage(percentage_score) ==
    IF percentage_score = 0 THEN "Critical"
    ELSE IF percentage_score <= 25 THEN "Critical"
    ELSE IF percentage_score <= 50 THEN "High"
    ELSE IF percentage_score <= 75 THEN "Medium"
    ELSE "Low"

(***************************************************************************)
(* JSON values as the code sees them.  A task's "score" field is null, an  *)
(* integer, or a string that int() rejects.                                *)
(***************************************************************************)
NullScore == [kind |-> "null", val |-> 0]
BadScore == [kind |-> "str", val |-> 0]
IntScore(n) == [kind |-> "int", val |-> n]
TaskScores == {NullScore, BadScore} \cup {IntScore(n) : n \in 0..MaxScore}

\* PyInt that takes a non-numeric string for 0.
PyIntLenient(v) == [raised |-> FALSE, val |-> v.val]

\* int(task.get("score", 0)): ValueError on a non-numeric string.
PyInt(v) == [raised |-> v.kind # "int", val |-> v.val]

(***************************************************************************)
(* What one attempt of the generative call can produce.                    *)
(*   exception  : the provider call raised, or the reply had no content    *)
(*   empty      : content is empty or whitespace                           *)
(*   non_json   : json.loads(content) raised JSONDecodeError               *)
(*   falsy      : valid JSON that Python treats as false ({}, [], null, 0) *)
(*   non_object : valid JSON that is true but is no dict (a list, a string)*)
(*   object     : a JSON object; priority and subcategory are its fields   *)
(***************************************************************************)
Outcome(k, p, s) == [kind |-> k, priority |-> p, subcategory |-> s]
None == Outcome("none", "", "")
\* The objects tried: every priority under an ordinary subcategory, and the
\* object the positive-assessment prompt asks for.
ModelObjects ==
    {Outcome("object", p, "PR.AA-01") : p \in Priorities}
        \cup {Outcome("object", "Low", "OVERALL-ASSESSMENT")}
RetryOutcomes == {Outcome("exception", "", ""), Outcome("non_json", "", "")}
FinalOutcomes ==
    {Outcome("empty", "", ""), Outcome("falsy", "", ""), Outcome("non_object", "", "")}
        \cup ModelObjects
ModelOutcomes == RetryOutcomes \cup FinalOutcomes

\* The behaviours of the model during one generate call with budget r: the
\* outcomes of the attempts the loop makes, attempt by attempt.  Every
\* attempt but the last is one the loop goes on from.
ModelBehaviours(r) ==
    IF r = 0 THEN {<<>>}
    ELSE UNION {
        {pre \o <<last>> :
            pre \in [1..(n - 1) -> RetryOutcomes],
            last \in (IF n = r THEN ModelOutcomes ELSE FinalOutcomes)}
        : n \in 1..r}

\* Python truth value of a value returned by generate_gpt_recommendation.
Truthy(v) == v.kind \in {"object", "non_object"}

(***************************************************************************)
(* generate_gpt_recommendation(prompt, retries, delay).  outs[attempt + 1] *)
(* is what attempt number `attempt` of the loop gets from the model.  The  *)
(* result carries the returned value and the trace of model calls and      *)
(* sleeps the call made.                                                   *)
(***************************************************************************)
CallEntry(o) == [op |-> "call", outcome |-> o.kind, delay |-> 0]
SleepEntry(d) == [op |-> "sleep", outcome |-> "", delay |-> d]

\* GptLoop with time.sleep(delay) after every attempt that raised, the last
\* one included.
RECURSIVE GptLoopSleepsAfterLast(_, _, _, _)
GptLoopSleepsAfterLast(outs, attempt, retries, delay) ==
    IF attempt >= retries
    THEN [result |-> None, trace |-> <<>>]
    ELSE LET o == outs[attempt + 1]
             rest == GptLoopSleepsAfterLast(outs, attempt + 1, retries, delay)
         IN CASE o.kind = "exception" ->
                    [result |-> rest.result,
                     trace |-> <<CallEntry(o), SleepEntry(delay)>> \o rest.trace]
              [] o.kind = "empty" ->
                    [result |-> None, trace |-> <<CallEntry(o)>>]
              [] o.kind = "non_json" ->
                    [result |-> rest.result,
                     trace |-> <<CallEntry(o)>> \o rest.trace]
              [] OTHER ->
                    [result |-> o, trace |-> <<CallEntry(o)>>]

\* GptLoop with time.sleep(delay) before the `return None` of an empty
\* reply.
RECURSIVE GptLoopSleepsOnEmpty(_, _, _, _)
GptLoopSleepsOnEmpty(outs, attempt, retries, delay) ==
    IF attempt >= retries
    THEN [result |-> None, trace |-> <<>>]
    ELSE LET o == outs[attempt + 1]
             rest == GptLoopSleepsOnEmpty(outs, attempt + 1, retries, delay)
         IN CASE o.kind = "exception" ->
                    [result |-> rest.result,
                     trace |-> <<CallEntry(o)>>
                               \o (IF attempt < retries - 1
                                   THEN <<SleepEntry(delay)>> ELSE <<>>)
                               \o rest.trace]
              [] o.kind = "empty" ->
                    [result |-> None, trace |-> <<CallEntry(o), SleepEntry(delay)>>]
              [] o.kind = "non_json" ->
                    [result |-> rest.result,
                     trace |-> <<CallEntry(o)>> \o rest.trace]
              [] OTHER ->
                    [result |-> o, trace |-> <<CallEntry(o)>>]

\* GptLoop with `raise` in the except clause once the budget is used up: the
\* exception of the last attempt comes out of the call.
RECURSIVE GptLoopReraises(_, _, _, _)
GptLoopReraises(outs, attempt, retries, delay) ==
    IF attempt >= retries
    THEN [result |-> None, trace |-> <<>>]
    ELSE LET o == outs[attempt + 1]
             rest == GptLoopReraises(outs, attempt + 1, retries, delay)
         IN CASE o.kind = "exception" ->
                    IF attempt < retries - 1
                    THEN [result |-> rest.result,
                          trace |-> <<CallEntry(o), SleepEntry(delay)>> \o rest.trace]
                    ELSE [result |-> o, trace |-> <<CallEntry(o)>>]
              [] o.kind = "empty" ->
                    [result |-> None, trace |-> <<CallEntry(o)>>]
              [] o.kind = "non_json" ->
                    [result |-> rest.result,
                     trace |-> <<CallEntry(o)>> \o rest.trace]
              [] OTHER ->
                    [result |-> o, trace |-> <<CallEntry(o)>>]

\* GptLoop with `return None` where the code has `continue`: non-JSON text
\* ends the call.
RECURSIVE GptLoopNoRetry(_, _, _, _)
GptLoopNoRetry(outs, attempt, retries, delay) ==
    IF attempt >= retries
    THEN [result |-> None, trace |-> <<>>]
    ELSE LET o == outs[attempt + 1]
             rest == GptLoopNoRetry(outs, attempt + 1, retries, delay)
         IN CASE o.kind = "exception" ->
                    [result |-> rest.result,
                     trace |-> <<CallEntry(o)>>
                               \o (IF attempt < retries - 1
                                   THEN <<SleepEntry(delay)>> ELSE <<>>)
                               \o rest.trace]
              [] o.kind \in {"empty", "non_json"} ->
                    [result |-> None, trace |-> <<CallEntry(o)>>]
              [] OTHER ->
                    [result |-> o, trace |-> <<CallEntry(o)>>]

RECURSIVE GptLoop(_, _, _, _)
GptLoop(outs, attempt, retries, delay) ==
    IF attempt >= retries
    THEN [result |-> None, trace |-> <<>>]
    ELSE LET o == outs[attempt + 1]
             rest == GptLoop(outs, attempt + 1, retries, delay)
         IN CASE o.kind = "exception" ->
                    [result |-> rest.result,
                     trace |-> <<CallEntry(o)>>
                               \o (IF attempt < retries - 1
                                   THEN <<SleepEntry(delay)>> ELSE <<>>)
                               \o rest.trace]
              [] o.kind = "empty" ->
                    [result |-> None, trace |-> <<CallEntry(o)>>]
              [] o.kind = "non_json" ->
                    [result |-> rest.result,
                     trace |-> <<CallEntry(o)>> \o rest.trace]
              [] OTHER ->
                    [result |-> o, trace |-> <<CallEntry(o)>>]

generate_gpt_recommendation(outs, retries, delay) == GptLoop(outs, 0, retries, delay)


(***************************************************************************)
(* The upstream survey API.  session.get either raises a                   *)
(* RequestException (connection refused, DNS failure, timeout) or returns  *)
(* a response with a status code and a body.                               *)
(***************************************************************************)
ServerError == 500     \* an upstream failure status; also the handlers' own 500
BadRequest == 400      \* the handlers' answer to a ValueError

Bodies == {"blank", "garbage", "json_list", "json_object"}
TransportFailure == [raised |-> TRUE, status_code |-> 0, body |-> "blank"]
HttpResponse(code, body) == [raised |-> FALSE, status_code |-> code, body |-> body]
Responses ==
    {TransportFailure, HttpResponse(ServerError, "json_object")}
        \cup {HttpResponse(HttpOk, b) : b \in Bodies}

UsableBody(resp) == ~resp.raised /\ resp.status_code = HttpOk /\ resp.body = "json_object"

\* The "scores" field of the metadata object: absent, a mapping of category
\* to percentage (only the values matter to the code), a mapping with a value
\* that is no number, or a string holding JSON text.
GovernText == "{\"govern\": 40}"
ScoresField(form, values, text) == [form |-> form, values |-> values, text |-> text]
AbsentScores == ScoresField("absent", <<>>, "")
ScoresFields ==
    {AbsentScores,
     ScoresField("mapping", <<90, 10>>, ""),
     ScoresField("non_numeric", <<0>>, ""),
     ScoresField("string", <<>>, GovernText),
     ScoresField("string", <<>>, "not json")}

\* JsonLoadsScores that raises JSONDecodeError on every text.
JsonLoadsScoresRejects(text) == [raised |-> TRUE, values |-> <<>>]

\* json.loads(meta_data["scores"])
JsonLoadsScores(text) ==
    IF text = GovernText
    THEN [raised |-> FALSE, values |-> <<40>>]
    ELSE [raised |-> TRUE, values |-> <<>>]

\* The task lists a usable task body can hold; a task is its score, its id
\* is its position in the list.
RECURSIVE SeqsUpTo(_, _)
SeqsUpTo(S, n) ==
    IF n = 0 THEN {<<>>}
    ELSE LET shorter == SeqsUpTo(S, n - 1)
         IN shorter \cup {Append(q, x) : q \in {r \in shorter : Len(r) = n - 1}, x \in S}
TaskLists == SeqsUpTo(TaskScores, MaxTasks)

(***************************************************************************)
(* Category scores as the pipeline holds them, and                         *)
(* calculate_overall_maturity(category_scores).                            *)
(***************************************************************************)
Scores(numeric, values) == [numeric |-> numeric, values |-> values]
EmptyScores == Scores(TRUE, <<>>)

RECURSIVE Sum(_)
Sum(q) == IF q = <<>> THEN 0 ELSE Head(q) + Sum(Tail(q))

\* calculate_overall_maturity with the thresholds 75, 50 and 25.
calculate_overall_maturity_round(cs) ==
    IF cs.values = <<>> THEN [raised |-> FALSE, level |-> "Unknown"]
    ELSE IF ~cs.numeric THEN [raised |-> TRUE, level |-> ""]
    ELSE LET s == Sum(cs.values)
             n == Len(cs.values)
         IN [raised |-> FALSE,
             level |-> IF s >= 75 * n THEN "Advanced"
                       ELSE IF s >= 50 * n THEN "Intermediate"
                       ELSE IF s >= 25 * n THEN "Basic"
                       ELSE "Initial"]

\* sum() raises TypeError on a value that is no number; the average is
\* compared as a rational: avg >= t  <=>  sum >= t * len.
calculate_overall_maturity(cs) ==
    IF cs.values = <<>> THEN [raised |-> FALSE, level |-> "Unknown"]
    ELSE IF ~cs.numeric THEN [raised |-> TRUE, level |-> ""]
    ELSE LET s == Sum(cs.values)
             n == Len(cs.values)
         IN [raised |-> FALSE,
             level |-> IF s >= 76 * n THEN "Advanced"
                       ELSE IF s >= 51 * n THEN "Intermediate"
                       ELSE IF s >= 26 * n THEN "Basic"
                       ELSE "Initial"]

(***************************************************************************)
(* Recommendation records.  Of the model's JSON object only priority and   *)
(* subcategory are tracked; the metadata the pipeline adds is              *)
(* nist_subcategory (the task id), current_score, priority and, for the    *)
(* positive assessment, assessment_type.                                   *)
(***************************************************************************)
Rec(id, score, priority, subcategory, atype) ==
    [nist_subcategory |-> id, current_score |-> score, priority |-> priority,
     subcategory |-> subcategory, assessment_type |-> atype]
NoRec == Rec(0, -1, "", "", "")
Absent == [present |-> FALSE, rec |-> NoRec]
Present(r) == [present |-> TRUE, rec |-> r]

\* UpdateMetadata without the "priority" key: the model's priority stays.
UpdateMetadataKeepsPriority(r, task_id, score, priority) ==
    Rec(task_id, score, r.priority, r.subcategory, "")

\* recommendation.update({... "current_score": score, "priority": priority ...})
UpdateMetadata(r, task_id, score, priority) ==
    Rec(task_id, score, priority, r.subcategory, "")

\* What a generate_gpt_recommendation(prompt) call of the pipeline (default
\* retries and delay) can return, over all behaviours of the model.
GptResults ==
    {generate_gpt_recommendation(outs, DefaultRetries, DefaultDelay).result :
        outs \in ModelBehaviours(DefaultRetries)}

\* The same, by the prompt of the call.  The code reads no field of the
\* object it gets for a control (it only adds keys to it), so for a control
\* prompt the objects tried are those under the ordinary subcategory; for
\* the assessment prompt both kinds of object are tried.
AnswersTo(prompt) ==
    IF prompt = "control"
    THEN {r \in GptResults : r.subcategory # "OVERALL-ASSESSMENT"}
    ELSE GptResults

\* generate_subcategory_recommendation that returns a record of the
\* metadata alone when the generative call gave nothing.
SubcategoryPlaceholder(task_id, score, r) ==
    IF r.kind # "object"
    THEN Present(UpdateMetadata(NoRec, task_id, score, determine_priority(score)))
    ELSE Present(UpdateMetadata(r, task_id, score, determine_priority(score)))

\* generate_subcategory_recommendation(task, category_scores, survey_id),
\* given the value r its generate_gpt_recommendation call returned: every
\* exception is caught and turns into None.
generate_subcategory_recommendation(task_id, score, r) ==
    IF ~Truthy(r) THEN Absent
    ELSE IF r.kind # "object" THEN Absent    \* .update raises AttributeError
    ELSE Present(UpdateMetadata(r, task_id, score, determine_priority(score)))

CannedAssessment == Rec(0, -1, "Low", "OVERALL-ASSESSMENT", "positive_evaluation")

\* generate_positive_assessment_recommendation(category_scores, survey_id),
\* given the value r its generate_gpt_recommendation call returned: the
\* canned record is returned from the except clause only.
generate_positive_assessment_recommendation(r) ==
    IF ~Truthy(r) THEN Absent
    ELSE IF r.kind # "object" THEN Present(CannedAssessment)
    ELSE Present(Rec(0, -1, r.priority, r.subcategory, "positive_evaluation"))

(***************************************************************************)
(* Stream events.                                                          *)
(***************************************************************************)
Ctx(id, scores, level) == [survey_id |-> id, scores |-> scores, level |-> level]
NoCtx == Ctx(0, EmptyScores, "")
Ev(type, message) ==
    [type |-> type, message |-> message, survey_id |-> 0, current |-> 0, total |-> 0,
     percentage |-> 0, total_recommendations |-> 0, data |-> NoRec, ctx |-> NoCtx]
Status(message) == Ev("status", message)
Warning(message) == Ev("warning", message)
ErrorEvent(message) == Ev("error", message)


(***************************************************************************)
(* State of one request.                                                   *)
(***************************************************************************)
VARIABLES
    endpoint,          \* which route serves the request
    survey_id_param,   \* the <survey_id> path parameter, as text
    task_resp,         \* what the upstream API gives for /surveyTasks
    meta_resp,         \* what the upstream API gives for /survey
    meta_scores,       \* the "scores" field of a usable metadata body
    task_body,         \* the task list of a usable task body
    pc,                \* position of the handler / of the suspended generator
    survey_id,         \* int(survey_id), 0 before it is parsed
    response,          \* the HTTP response the handler returned
    events,            \* the stream events yielded so far, in order
    category_scores,   \* local category_scores
    user_context,      \* local user_context / final_output["user_context"]
    tasks,             \* local tasks
    total_tasks,       \* local total_tasks
    processed_tasks,   \* local processed_tasks
    idx,               \* position in tasks of the loop (0 before the first)
    recommendations,   \* local recommendations
    genCalls,          \* history: the task id (0: positive assessment) of
                       \* every generate_gpt_recommendation call, in order
    fetched,           \* history: the upstream resources session.get was
                       \* called for, in order
    twin,              \* the stream request this one repeats (TwinSpec only)
    gpt_retries,       \* retries argument of a direct generate call
    gpt_outs,          \* what the model answered during that call
    gpt_result,        \* value that call returned
    gpt_trace,         \* model calls and sleeps of that call, in order
    helper             \* a direct call of a priority helper: function,
                       \* argument and returned value

inputs == <<endpoint, survey_id_param, task_resp, meta_resp, meta_scores, task_body>>
locals == <<category_scores, user_context, tasks, total_tasks, processed_tasks, idx,
            recommendations>>
gpt == <<gpt_retries, gpt_outs, gpt_result, gpt_trace, helper>>
vars == <<inputs, pc, survey_id, response, events, locals, genCalls, fetched, twin,
         gpt>>

Endpoints == {"blocking", "stream", "sse"}

HelperCall(fn, arg, ret) == [fn |-> fn, arg |-> arg, ret |-> ret]
NoHelper == HelperCall("", 0, "")
Streaming == endpoint \in {"stream", "sse"}
SurveyIdParams == {"42", "abc"}

\* ParseSurveyId that takes any text for a number.
ParseSurveyIdLenient(text) == [raised |-> FALSE, val |-> IF text = "42" THEN 42 ELSE 0]

\* int(survey_id) on the path parameter.
ParseSurveyId(text) ==
    IF text = "42" THEN [raised |-> FALSE, val |-> 42] ELSE [raised |-> TRUE, val |-> 0]

NoResponse == [status |-> 0, mimetype |-> "", keys |-> {}, survey_id |-> 0]
JsonResponse(status, keys, id) ==
    [status |-> status, mimetype |-> "application/json", keys |-> keys, survey_id |-> id]
StreamResponse(mimetype) ==
    [status |-> HttpOk, mimetype |-> mimetype, keys |-> {}, survey_id |-> 0]

PipelineStart ==
    /\ pc = "request"
    /\ survey_id = 0
    /\ response = NoResponse
    /\ events = <<>>
    /\ category_scores = EmptyScores
    /\ user_context = NoCtx
    /\ tasks = <<>>
    /\ total_tasks = 0
    /\ processed_tasks = 0
    /\ idx = 0
    /\ recommendations = <<>>
    /\ genCalls = <<>>
    /\ fetched = <<>>

\* The request a twin request repeats: the answers the generative model gave
\* to it, the events of its stream and the content type of its response.
Twin(mode, results, evs, mimetype) ==
    [mode |-> mode, results |-> results, events |-> evs, mimetype |-> mimetype]
NoTwin == Twin("off", <<>>, <<>>, "")

Init ==
    /\ endpoint \in Endpoints
    /\ survey_id_param \in SurveyIdParams
    /\ task_resp \in Responses
    /\ meta_resp \in Responses
    /\ meta_scores \in (IF UsableBody(meta_resp) THEN ScoresFields ELSE {AbsentScores})
    /\ task_body \in (IF UsableBody(task_resp) THEN TaskLists ELSE {<<>>})
    /\ PipelineStart
    /\ twin = NoTwin
    /\ gpt_retries = DefaultRetries
    /\ gpt_outs = <<>>
    /\ gpt_result = None
    /\ gpt_trace = <<>>
    /\ helper = NoHelper

(***************************************************************************)
(* Handling of the two upstream responses (the same code in process_survey *)
(* and in both generators).                                                *)
(***************************************************************************)
FetchRaises == task_resp.raised \/ meta_resp.raised

\* task_resp = session.get(task_url, ...) and then, unless that raised,
\* meta_resp = session.get(meta_url, ...).
SessionGets == IF task_resp.raised THEN <<"surveyTasks">> ELSE <<"surveyTasks", "survey">>

\* "Handle meta response": the warning it gives (if any), whether it raises
\* (meta_data.get on a value that is no dict), and the resulting
\* meta_data.get("scores", {}).
HandleMeta ==
    IF meta_resp.status_code = HttpOk /\ meta_resp.body # "blank"
    THEN CASE meta_resp.body = "garbage" ->
                [warning |-> "Meta JSON error", raised |-> FALSE, scores |-> EmptyScores]
           [] meta_resp.body = "json_list" ->
                [warning |-> "", raised |-> TRUE, scores |-> EmptyScores]
           [] OTHER ->
                IF meta_scores.form = "string"
                THEN LET parsed == JsonLoadsScores(meta_scores.text)
                     IN IF parsed.raised
                        THEN [warning |-> "Could not parse scores data",
                              raised |-> FALSE, scores |-> EmptyScores]
                        ELSE [warning |-> "", raised |-> FALSE,
                              scores |-> Scores(TRUE, parsed.values)]
                ELSE [warning |-> "", raised |-> FALSE,
                      scores |-> Scores(meta_scores.form # "non_numeric",
                                        meta_scores.values)]
    ELSE [warning |-> "Empty or non-JSON meta response", raised |-> FALSE,
          scores |-> EmptyScores]

\* HandleTask with task_data left unset by a bad response: the later
\* survey_data.get("tasks", {}).get raises.
HandleTaskUnset ==
    IF task_resp.status_code = HttpOk /\ task_resp.body # "blank"
    THEN CASE task_resp.body = "garbage" ->
                [warning |-> "Task JSON error", data |-> "list"]
           [] task_resp.body = "json_list" ->
                [warning |-> "", data |-> "list"]
           [] OTHER ->
                [warning |-> "", data |-> "dict"]
    ELSE [warning |-> "Empty or non-JSON task response", data |-> "list"]

\* "Handle task response": the warning it gives (if any) and task_data.
HandleTask ==
    IF task_resp.status_code = HttpOk /\ task_resp.body # "blank"
    THEN CASE task_resp.body = "garbage" ->
                [warning |-> "Task JSON error", data |-> "empty_dict"]
           [] task_resp.body = "json_list" ->
                [warning |-> "", data |-> "list"]
           [] OTHER ->
                [warning |-> "", data |-> "dict"]
    ELSE [warning |-> "Empty or non-JSON task response", data |-> "empty_dict"]

\* survey_data.get("tasks", {}).get("tasks", []): AttributeError when the
\* task body is no dict.
ExtractTasks ==
    [raised |-> HandleTask.data = "list",
     list |-> IF HandleTask.data = "dict" THEN task_body ELSE <<>>]

\* task.get("score") is not None and int(task.get("score", 0)) <= 2
ScoreIsSet(t) == t.kind # "null"
Qualifies(t) == ScoreIsSet(t) /\ ~PyInt(t).raised /\ PyInt(t).val <= 2

\* CountQualifying that counts every task with a score.
CountQualifyingScored(list) ==
    [raised |-> \E i \in 1..Len(list) : ScoreIsSet(list[i]) /\ PyInt(list[i]).raised,
     n |-> Cardinality({i \in 1..Len(list) : ScoreIsSet(list[i])})]

\* len([task for task in tasks if ... int(task.get("score", 0)) <= 2])
CountQualifying(list) ==
    [raised |-> \E i \in 1..Len(list) : ScoreIsSet(list[i]) /\ PyInt(list[i]).raised,
     n |-> Cardinality({i \in 1..Len(list) : Qualifies(list[i])})]

\* NextTask with the threshold `score <= 3`.
NextTaskUpTo3(list, from) ==
    LET later == {i \in (from + 1)..Len(list) :
                    ScoreIsSet(list[i]) /\ (PyInt(list[i]).raised \/ PyInt(list[i]).val <= 3)}
    IN IF later = {} THEN 0 ELSE CHOOSE i \in later : \A j \in later : i <= j

\* The next task after position `from` that the loop body does not skip:
\* one whose score is set and either does not convert or is <= 2; 0 if none.
NextTask(list, from) ==
    LET later == {i \in (from + 1)..Len(list) :
                    ScoreIsSet(list[i]) /\ (PyInt(list[i]).raised \/ PyInt(list[i]).val <= 2)}
    IN IF later = {} THEN 0 ELSE CHOOSE i \in later : \A j \in later : i <= j

\* round((processed_tasks / total_tasks) * 100, 1), in tenths of a percent.
Percentage(processed, total) == (2000 * processed + total) \div (2 * total)


(***************************************************************************)
(* The streaming endpoints: process_survey_stream_endpoint and             *)
(* process_survey_sse_endpoint.  Their generators are the same code; the   *)
(* responses differ in content type (and headers).                         *)
(***************************************************************************)
Mimetype == IF endpoint = "sse" THEN "text/event-stream" ELSE "text/plain"

\* The positions at which a generator is suspended, by the yield it executed.
YieldPoints ==
    {"y_starting", "y_fetching", "y_api_status", "y_meta_warning", "y_task_warning",
     "y_user_context", "y_processing", "y_progress", "y_recommendation", "y_complete",
     "y_positive", "y_positive_rec", "y_summary", "y_error"}

Yield(ev, at) ==
    /\ events' = Append(events, ev)
    /\ pc' = at

\* The handler: int(survey_id), then Response(generate(), ...).  The body of
\* the generator does not run before the server iterates the response.
StreamEndpoint ==
    /\ pc = "request"
    /\ Streaming
    /\ LET id == ParseSurveyId(survey_id_param)
       IN IF id.raised
          THEN /\ response' = JsonResponse(BadRequest, {"error"}, 0)
               /\ pc' = "done"
               /\ UNCHANGED survey_id
          ELSE /\ response' = StreamResponse(Mimetype)
               /\ survey_id' = id.val
               /\ pc' = "created"
    /\ UNCHANGED <<inputs, events, locals, genCalls, fetched, twin, gpt>>

StartGenerator ==
    /\ pc = "created"
    /\ Yield([Status("Starting survey processing...") EXCEPT !.survey_id = survey_id],
             "y_starting")
    /\ UNCHANGED <<inputs, survey_id, response, locals, genCalls, fetched, twin, gpt>>

ResumeStarting ==
    /\ pc = "y_starting"
    /\ Yield(Status("Fetching survey data..."), "y_fetching")
    /\ UNCHANGED <<inputs, survey_id, response, locals, genCalls, fetched, twin, gpt>>

\* ResumeFetching without the yield of the API-status event.
ResumeFetchingNoStatus ==
    /\ pc = "y_fetching"
    /\ IF FetchRaises
       THEN Yield(ErrorEvent("Request failed"), "y_error")
       ELSE pc' = "y_api_status" /\ UNCHANGED events
    /\ fetched' = SessionGets
    /\ UNCHANGED <<inputs, survey_id, response, locals, genCalls, twin, gpt>>

\* ResumeFetching with the RequestException swallowed.
ResumeFetchingSwallows ==
    /\ pc = "y_fetching"
    /\ Yield(Status("API Status"), "y_api_status")
    /\ fetched' = SessionGets
    /\ UNCHANGED <<inputs, survey_id, response, locals, genCalls, twin, gpt>>

\* The two session.get calls: a RequestException goes to the first except
\* clause of the generator.
ResumeFetching ==
    /\ pc = "y_fetching"
    /\ IF FetchRaises
       THEN Yield(ErrorEvent("Request failed"), "y_error")
       ELSE Yield(Status("API Status"), "y_api_status")
    /\ fetched' = SessionGets
    /\ UNCHANGED <<inputs, survey_id, response, locals, genCalls, twin, gpt>>

\* From "Send user context" to the next yield.
FromUserContext ==
    LET cs == HandleMeta.scores
        m == calculate_overall_maturity(cs)
    IN /\ category_scores' = cs
       /\ IF m.raised
          THEN /\ Yield(ErrorEvent("Processing error"), "y_error")
               /\ UNCHANGED user_context
          ELSE LET ctx == Ctx(survey_id, cs, m.level)
               IN /\ user_context' = ctx
                  /\ Yield([Ev("user_context", "") EXCEPT !.ctx = ctx], "y_user_context")

\* From "Handle task response" to the next yield.
FromTaskHandling ==
    IF HandleTask.warning # ""
    THEN /\ Yield(Warning(HandleTask.warning), "y_task_warning")
         /\ UNCHANGED <<category_scores, user_context>>
    ELSE FromUserContext

ResumeApiStatus ==
    /\ pc = "y_api_status"
    /\ IF HandleMeta.raised
       THEN /\ Yield(ErrorEvent("Processing error"), "y_error")
            /\ UNCHANGED <<category_scores, user_context>>
       ELSE IF HandleMeta.warning # ""
       THEN /\ Yield(Warning(HandleMeta.warning), "y_meta_warning")
            /\ UNCHANGED <<category_scores, user_context>>
       ELSE FromTaskHandling
    /\ UNCHANGED <<inputs, survey_id, response, tasks, total_tasks, processed_tasks, idx,
                   recommendations, genCalls, fetched, twin, gpt>>

ResumeMetaWarning ==
    /\ pc = "y_meta_warning"
    /\ FromTaskHandling
    /\ UNCHANGED <<inputs, survey_id, response, tasks, total_tasks, processed_tasks, idx,
                   recommendations, genCalls, fetched, twin, gpt>>

ResumeTaskWarning ==
    /\ pc = "y_task_warning"
    /\ FromUserContext
    /\ UNCHANGED <<inputs, survey_id, response, tasks, total_tasks, processed_tasks, idx,
                   recommendations, genCalls, fetched, twin, gpt>>

\* tasks, total_tasks, then status(Processing N tasks...).
ResumeUserContext ==
    /\ pc = "y_user_context"
    /\ LET got == ExtractTasks
           count == CountQualifying(got.list)
       IN IF got.raised
          THEN /\ Yield(ErrorEvent("Processing error"), "y_error")
               /\ UNCHANGED <<tasks, total_tasks>>
          ELSE /\ tasks' = got.list
               /\ IF count.raised
                  THEN /\ Yield(ErrorEvent("Processing error"), "y_error")
                       /\ UNCHANGED total_tasks
                  ELSE /\ total_tasks' = count.n
                       /\ Yield([Status("Processing tasks...") EXCEPT !.total = count.n],
                                "y_processing")
    /\ UNCHANGED <<inputs, survey_id, response, category_scores, user_context,
                   processed_tasks, idx, recommendations, genCalls, fetched, twin, gpt>>

\* ProgressEvent that counts the tasks done before the current one.
ProgressEventFromZero(current, total) ==
    [Ev("progress", "") EXCEPT !.current = current - 1, !.total = total,
                               !.percentage = Percentage(current - 1, total)]

ProgressEvent(current, total) ==
    [Ev("progress", "") EXCEPT !.current = current, !.total = total,
                               !.percentage = Percentage(current, total)]

\* The for loop, from the task after idx to the next yield: the progress
\* event of the next task it does not skip, or status(Processing complete!).
ContinueLoop ==
    LET j == NextTask(tasks, idx)
    IN IF j = 0
       THEN /\ idx' = Len(tasks)
            /\ Yield(Status("Processing complete!"), "y_complete")
            /\ UNCHANGED processed_tasks
       ELSE /\ idx' = j
            /\ IF PyInt(tasks[j]).raised
               THEN /\ Yield(ErrorEvent("Processing error"), "y_error")
                    /\ UNCHANGED processed_tasks
               ELSE /\ processed_tasks' = processed_tasks + 1
                    /\ Yield(ProgressEvent(processed_tasks + 1, total_tasks), "y_progress")

ResumeProcessing ==
    /\ pc = "y_processing"
    /\ ContinueLoop
    /\ UNCHANGED <<inputs, survey_id, response, category_scores, user_context, tasks,
                   total_tasks, recommendations, genCalls, fetched, twin, gpt>>

RecommendationEvent(r) == [Ev("recommendation", "") EXCEPT !.data = r]

\* The answers tried on the first request of a twin pair: None, a JSON value
\* that is no object, and the two kinds of object.
TwinAnswers ==
    {None, Outcome("non_object", "", ""), Outcome("object", "Medium", "PR.AA-01"),
     Outcome("object", "Low", "OVERALL-ASSESSMENT")}

\* What the next generate_gpt_recommendation call of the generator can
\* return: anything the model's behaviours allow for the prompt, and in the
\* second request of a twin pair what the same call of the first request
\* returned.
ModelAnswers(prompt) ==
    CASE twin.mode = "replay" /\ Len(genCalls) < Len(twin.results) ->
            {twin.results[Len(genCalls) + 1]}
      [] twin.mode = "record" -> TwinAnswers \cap AnswersTo(prompt)
      [] OTHER -> AnswersTo(prompt)

\* The first request of a twin pair keeps the answers it got.
Heard(r) ==
    twin' = IF twin.mode = "record"
            THEN [twin EXCEPT !.results = Append(@, r)]
            ELSE twin

\* ResumeProgress without the yield of the recommendation event.
ResumeProgressNoEvent ==
    /\ pc = "y_progress"
    /\ \E r \in ModelAnswers("control") :
        LET got == generate_subcategory_recommendation(idx, PyInt(tasks[idx]).val, r)
        IN /\ Heard(r)
           /\ recommendations' = IF got.present
                                 THEN Append(recommendations, got.rec)
                                 ELSE recommendations
           /\ ContinueLoop
    /\ genCalls' = Append(genCalls, idx)
    /\ UNCHANGED <<inputs, survey_id, response, category_scores, user_context, tasks,
                   total_tasks, fetched, gpt>>

\* After the progress yield: generate_subcategory_recommendation for the
\* task at idx, then the recommendation event or, without one, on with
\* the loop.
\* ResumeProgress with the new Recommendation put at the head of the list.
ResumeProgressPrepends ==
    /\ pc = "y_progress"
    /\ \E r \in ModelAnswers("control") :
        LET got == generate_subcategory_recommendation(idx, PyInt(tasks[idx]).val, r)
        IN /\ Heard(r)
           /\ IF got.present
              THEN /\ recommendations' = <<got.rec>> \o recommendations
                   /\ Yield(RecommendationEvent(got.rec), "y_recommendation")
                   /\ UNCHANGED <<processed_tasks, idx>>
              ELSE /\ ContinueLoop
                   /\ UNCHANGED recommendations
    /\ genCalls' = Append(genCalls, idx)
    /\ UNCHANGED <<inputs, survey_id, response, category_scores, user_context, tasks,
                   total_tasks, fetched, gpt>>

ResumeProgress ==
    /\ pc = "y_progress"
    /\ \E r \in ModelAnswers("control") :
        LET got == generate_subcategory_recommendation(idx, PyInt(tasks[idx]).val, r)
        IN /\ Heard(r)
           /\ IF got.present
              THEN /\ recommendations' = Append(recommendations, got.rec)
                   /\ Yield(RecommendationEvent(got.rec), "y_recommendation")
                   /\ UNCHANGED <<processed_tasks, idx>>
              ELSE /\ ContinueLoop
                   /\ UNCHANGED recommendations
    /\ genCalls' = Append(genCalls, idx)
    /\ UNCHANGED <<inputs, survey_id, response, category_scores, user_context, tasks,
                   total_tasks, fetched, gpt>>

ResumeRecommendation ==
    /\ pc = "y_recommendation"
    /\ ContinueLoop
    /\ UNCHANGED <<inputs, survey_id, response, category_scores, user_context, tasks,
                   total_tasks, recommendations, genCalls, fetched, twin, gpt>>

\* SummaryEvent with a summary that the SSE generator leaves without the
\* survey id.
SummaryEventBare(recs) ==
    [Ev("summary", "") EXCEPT !.total_recommendations = Len(recs),
                              !.survey_id = IF endpoint = "sse" THEN 0 ELSE survey_id]

SummaryEvent(recs) ==
    [Ev("summary", "") EXCEPT !.total_recommendations = Len(recs), !.survey_id = survey_id]

\* ResumeComplete with the positive assessment tried only when the survey
\* had no qualifying task.
ResumeCompleteNoTasks ==
    /\ pc = "y_complete"
    /\ IF total_tasks = 0
       THEN Yield(Status("Generating positive assessment via LLM..."), "y_positive")
       ELSE Yield(SummaryEvent(recommendations), "y_summary")
    /\ UNCHANGED <<inputs, survey_id, response, locals, genCalls, fetched, twin, gpt>>

ResumeComplete ==
    /\ pc = "y_complete"
    /\ IF recommendations = <<>>
       THEN Yield(Status("Generating positive assessment via LLM..."), "y_positive")
       ELSE Yield(SummaryEvent(recommendations), "y_summary")
    /\ UNCHANGED <<inputs, survey_id, response, locals, genCalls, fetched, twin, gpt>>

ResumePositive ==
    /\ pc = "y_positive"
    /\ \E r \in ModelAnswers("assessment") :
        LET got == generate_positive_assessment_recommendation(r)
        IN /\ Heard(r)
           /\ IF got.present
              THEN /\ recommendations' = <<got.rec>>
                   /\ Yield(RecommendationEvent(got.rec), "y_positive_rec")
              ELSE /\ Yield(SummaryEvent(recommendations), "y_summary")
                   /\ UNCHANGED recommendations
    /\ genCalls' = Append(genCalls, 0)
    /\ UNCHANGED <<inputs, survey_id, response, category_scores, user_context, tasks,
                   total_tasks, processed_tasks, idx, fetched, gpt>>

\* ResumePositiveRec with a summary that counts the per-control
\* Recommendations only.
ResumePositiveRecUncounted ==
    /\ pc = "y_positive_rec"
    /\ Yield(SummaryEvent(SelectSeq(recommendations, LAMBDA r : r.assessment_type = "")),
             "y_summary")
    /\ UNCHANGED <<inputs, survey_id, response, locals, genCalls, fetched, twin, gpt>>

ResumePositiveRec ==
    /\ pc = "y_positive_rec"
    /\ Yield(SummaryEvent(recommendations), "y_summary")
    /\ UNCHANGED <<inputs, survey_id, response, locals, genCalls, fetched, twin, gpt>>

\* "Send end marker", after the try statement: reached from the summary and
\* from either except clause.  It is the last statement of the generator:
\* once the marker is out the response body is complete.
ResumeSummary ==
    /\ pc = "y_summary"
    /\ Yield(Ev("end", ""), "done")
    /\ UNCHANGED <<inputs, survey_id, response, locals, genCalls, fetched, twin, gpt>>

\* ResumeError without the end marker: the generator returns after the
\* error event.
ResumeErrorNoEnd ==
    /\ pc = "y_error"
    /\ pc' = "done"
    /\ UNCHANGED <<inputs, survey_id, response, events, locals, genCalls, fetched, twin,
                   gpt>>

\* ResumeError with the final summary sent before the end marker.
ResumeErrorThenSummary ==
    /\ pc = "y_error"
    /\ Yield(SummaryEvent(recommendations), "y_summary")
    /\ UNCHANGED <<inputs, survey_id, response, locals, genCalls, fetched, twin, gpt>>

ResumeError ==
    /\ pc = "y_error"
    /\ Yield(Ev("end", ""), "done")
    /\ UNCHANGED <<inputs, survey_id, response, locals, genCalls, fetched, twin, gpt>>

\* ClientDisconnect with a generator that sends its end marker while it is
\* being closed.
ClientDisconnectFlushes ==
    /\ pc \in YieldPoints
    /\ Yield(Ev("end", ""), "closed")
    /\ UNCHANGED <<inputs, survey_id, response, locals, genCalls, fetched, twin, gpt>>

\* The client goes away while the generator is suspended: the server closes
\* the generator, GeneratorExit is raised at the yield and no except clause
\* of the generator catches it.
ClientDisconnect ==
    /\ pc \in YieldPoints
    /\ pc' = "closed"
    /\ UNCHANGED <<inputs, survey_id, response, events, locals, genCalls, fetched, twin,
                   gpt>>


(***************************************************************************)
(* The blocking endpoint: process_survey_endpoint and process_survey.      *)
(* The handler is followed through three positions: up to the task loop,   *)
(* one task of the loop, and from the end of the loop to the response.     *)
(***************************************************************************)
ErrorResponse(status) == JsonResponse(status, {"error"}, 0)

\* FetchErrorPayload without the "survey_id" key.
FetchErrorPayloadNoId(id) == JsonResponse(HttpOk, {"error"}, 0)

\* jsonify of what process_survey returns from `except RequestException`:
\* {"error": ..., "survey_id": survey_id}, with the default status.
FetchErrorPayload(id) == JsonResponse(HttpOk, {"error", "survey_id"}, id)

\* int(survey_id), the fetch and the handling of both responses.  A
\* RequestException is caught in process_survey and becomes an error
\* payload that the handler returns with jsonify; any other exception
\* reaches the except clauses of the handler.
BlockingEndpoint ==
    /\ pc = "request"
    /\ endpoint = "blocking"
    /\ LET id == ParseSurveyId(survey_id_param)
       IN IF id.raised
          THEN /\ response' = ErrorResponse(BadRequest)
               /\ pc' = "done"
               /\ UNCHANGED <<survey_id, category_scores, tasks, fetched>>
          ELSE /\ survey_id' = id.val
               /\ fetched' = SessionGets
               /\ IF FetchRaises
                  THEN /\ response' = FetchErrorPayload(id.val)
                       /\ pc' = "done"
                       /\ UNCHANGED <<category_scores, tasks>>
                  ELSE IF HandleMeta.raised \/ ExtractTasks.raised
                  THEN /\ response' = ErrorResponse(ServerError)
                       /\ pc' = "done"
                       /\ UNCHANGED <<category_scores, tasks>>
                  ELSE /\ tasks' = ExtractTasks.list
                       /\ category_scores' = HandleMeta.scores
                       /\ pc' = "b_loop"
                       /\ UNCHANGED response
    /\ UNCHANGED <<inputs, events, user_context, total_tasks, processed_tasks, idx,
                   recommendations, genCalls, twin, gpt>>

\* One task the loop does not skip.  The ValueError of int() is not caught
\* in process_survey: it reaches `except ValueError` of the handler.
\* BlockingTask with the new Recommendation put at the head of the list.
BlockingTaskPrepends ==
    /\ pc = "b_loop"
    /\ NextTask(tasks, idx) # 0
    /\ LET j == NextTask(tasks, idx)
       IN /\ idx' = j
          /\ IF PyInt(tasks[j]).raised
             THEN /\ response' = ErrorResponse(BadRequest)
                  /\ pc' = "done"
                  /\ UNCHANGED <<recommendations, genCalls>>
             ELSE /\ \E r \in ModelAnswers("control") :
                       LET got == generate_subcategory_recommendation(
                                      j, PyInt(tasks[j]).val, r)
                       IN recommendations' = IF got.present
                                             THEN <<got.rec>> \o recommendations
                                             ELSE recommendations
                  /\ genCalls' = Append(genCalls, j)
                  /\ UNCHANGED <<response, pc>>
    /\ UNCHANGED <<inputs, survey_id, events, category_scores, user_context, tasks,
                   total_tasks, processed_tasks, fetched, twin, gpt>>

BlockingTask ==
    /\ pc = "b_loop"
    /\ NextTask(tasks, idx) # 0
    /\ LET j == NextTask(tasks, idx)
       IN /\ idx' = j
          /\ IF PyInt(tasks[j]).raised
             THEN /\ response' = ErrorResponse(BadRequest)
                  /\ pc' = "done"
                  /\ UNCHANGED <<recommendations, genCalls>>
             ELSE /\ \E r \in ModelAnswers("control") :
                       LET got == generate_subcategory_recommendation(
                                      j, PyInt(tasks[j]).val, r)
                       IN recommendations' = IF got.present
                                             THEN Append(recommendations, got.rec)
                                             ELSE recommendations
                  /\ genCalls' = Append(genCalls, j)
                  /\ UNCHANGED <<response, pc>>
    /\ UNCHANGED <<inputs, survey_id, events, category_scores, user_context, tasks,
                   total_tasks, processed_tasks, fetched, twin, gpt>>

\* After the loop: the positive assessment when nothing was produced, then
\* final_output with calculate_overall_maturity, then jsonify.
BlockingFinish ==
    /\ pc = "b_loop"
    /\ NextTask(tasks, idx) = 0
    /\ idx' = Len(tasks)
    /\ IF recommendations = <<>>
       THEN /\ \E r \in ModelAnswers("assessment") :
                 LET got == generate_positive_assessment_recommendation(r)
                 IN recommendations' = IF got.present THEN <<got.rec>> ELSE recommendations
            /\ genCalls' = Append(genCalls, 0)
       ELSE UNCHANGED <<recommendations, genCalls>>
    /\ LET m == calculate_overall_maturity(category_scores)
       IN IF m.raised
          THEN /\ response' = ErrorResponse(ServerError)
               /\ UNCHANGED user_context
          ELSE /\ user_context' = Ctx(survey_id, category_scores, m.level)
               /\ response' = JsonResponse(HttpOk, {"user_context", "recommendations"}, 0)
    /\ pc' = "done"
    /\ UNCHANGED <<inputs, survey_id, events, category_scores, tasks, total_tasks,
                   processed_tasks, fetched, twin, gpt>>

\* The steps of the server on a blocking request and on a streaming one.
BlockingServe ==
    \/ BlockingEndpoint
    \/ BlockingTask
    \/ BlockingFinish

StreamServe ==
    \/ StreamEndpoint
    \/ StartGenerator
    \/ ResumeStarting
    \/ ResumeFetching
    \/ ResumeApiStatus
    \/ ResumeMetaWarning
    \/ ResumeTaskWarning
    \/ ResumeUserContext
    \/ ResumeProcessing
    \/ ResumeProgress
    \/ ResumeRecommendation
    \/ ResumeComplete
    \/ ResumePositive
    \/ ResumePositiveRec
    \/ ResumeSummary
    \/ ResumeError

Next ==
    \/ BlockingServe
    \/ StreamServe
    \/ ClientDisconnect

Spec == Init /\ [][Next]_vars

\* A streaming request whose client stays connected: the server keeps
\* iterating the response, and the upstream API and the generative model
\* always return or fail (each is part of one step of StreamServe).
LiveInit == Init /\ Streaming
LiveSpec == LiveInit /\ [][StreamServe]_vars /\ WF_vars(StreamServe)

(***************************************************************************)
(* Twin requests: /process_survey_stream/<id> is served to its end, then   *)
(* /process_survey_sse/<id> is served for the same id, with the upstream   *)
(* API giving the same responses and the generative model the same         *)
(* answers, call by call.                                                  *)
(***************************************************************************)
TwinInit ==
    /\ endpoint = "stream"
    /\ survey_id_param \in SurveyIdParams
    /\ task_resp \in Responses
    /\ meta_resp \in Responses
    /\ meta_scores \in (IF UsableBody(meta_resp) THEN ScoresFields ELSE {AbsentScores})
    /\ task_body \in (IF UsableBody(task_resp) THEN TaskLists ELSE {<<>>})
    /\ PipelineStart
    /\ twin = Twin("record", <<>>, <<>>, "")
    /\ gpt_retries = DefaultRetries
    /\ gpt_outs = <<>>
    /\ gpt_result = None
    /\ gpt_trace = <<>>
    /\ helper = NoHelper

\* The second request arrives, on the given route, once the first one is
\* answered in full.
SecondRequest(route) ==
    /\ twin.mode = "record"
    /\ pc = "done"
    /\ twin' = Twin("replay", twin.results, events, response.mimetype)
    /\ endpoint' = route
    /\ pc' = "request"
    /\ survey_id' = 0
    /\ response' = NoResponse
    /\ events' = <<>>
    /\ category_scores' = EmptyScores
    /\ user_context' = NoCtx
    /\ tasks' = <<>>
    /\ total_tasks' = 0
    /\ processed_tasks' = 0
    /\ idx' = 0
    /\ recommendations' = <<>>
    /\ genCalls' = <<>>
    /\ fetched' = <<>>
    /\ UNCHANGED <<survey_id_param, task_resp, meta_resp, meta_scores, task_body, gpt>>

TwinRequest == SecondRequest("sse")

TwinNext ==
    \/ StreamServe
    \/ TwinRequest

TwinSpec == TwinInit /\ [][TwinNext]_vars

(***************************************************************************)
(* A stream request and a blocking one: /process_survey_stream/<id> is     *)
(* served to its end, then /process_survey/<id> is served for the same id, *)
(* with the same upstream responses and the same answers of the generative *)
(* model, call by call.                                                    *)
(***************************************************************************)
PairInit == TwinInit

PairRequest == SecondRequest("blocking")

PairNext ==
    \/ StreamServe
    \/ PairRequest
    \/ BlockingServe

PairSpec == PairInit /\ [][PairNext]_vars

(***************************************************************************)
(* generate_gpt_recommendation called on its own, with any retry budget up *)
(* to MaxRetries and the default delay.                                    *)
(***************************************************************************)
GenInit ==
    /\ endpoint = "blocking"
    /\ survey_id_param = "42"
    /\ task_resp = TransportFailure
    /\ meta_resp = TransportFailure
    /\ meta_scores = AbsentScores
    /\ task_body = <<>>
    /\ PipelineStart
    /\ twin = NoTwin
    /\ gpt_retries \in 0..MaxRetries
    /\ gpt_outs = <<>>
    /\ gpt_result = None
    /\ gpt_trace = <<>>
    /\ helper = NoHelper

GenerateCall ==
    /\ pc = "request"
    /\ \E outs \in ModelBehaviours(gpt_retries) :
        LET got == generate_gpt_recommendation(outs, gpt_retries, DefaultDelay)
        IN /\ gpt_outs' = outs
           /\ gpt_result' = got.result
           /\ gpt_trace' = got.trace
    /\ pc' = "returned"
    /\ UNCHANGED <<inputs, survey_id, response, events, locals, genCalls, fetched, twin,
                   gpt_retries, helper>>

GenNext == GenerateCall

GenSpec == GenInit /\ [][GenNext]_vars

(***************************************************************************)
(* Direct calls of the two priority helpers, with every score of the       *)
(* ladder and every whole percentage.                                      *)
(***************************************************************************)
HelperInit ==
    /\ endpoint = "blocking"
    /\ survey_id_param = "42"
    /\ task_resp = TransportFailure
    /\ meta_resp = TransportFailure
    /\ meta_scores = AbsentScores
    /\ task_body = <<>>
    /\ PipelineStart
    /\ twin = NoTwin
    /\ gpt_retries = DefaultRetries
    /\ gpt_outs = <<>>
    /\ gpt_result = None
    /\ gpt_trace = <<>>
    /\ helper \in {HelperCall("determine_priority", s, "") : s \in 0..MaxScore}
               \cup {HelperCall("determine_priority_by_percentage", p, "") :
                         p \in 0..MaxPercentage}

CallDeterminePriority ==
    /\ pc = "request"
    /\ helper.fn = "determine_priority"
    /\ helper' = [helper EXCEPT !.ret = determine_priority(helper.arg)]
    /\ pc' = "returned"
    /\ UNCHANGED <<inputs, survey_id, response, events, locals, genCalls, fetched, twin,
                   gpt_retries, gpt_outs, gpt_result, gpt_trace>>

CallPriorityByPercentage ==
    /\ pc = "request"
    /\ helper.fn = "determine_priority_by_percentage"
    /\ helper' = [helper EXCEPT !.ret = determine_priority_by_percentage(helper.arg)]
    /\ pc' = "returned"
    /\ UNCHANGED <<inputs, survey_id, response, events, locals, genCalls, fetched, twin,
                   gpt_retries, gpt_outs, gpt_result, gpt_trace>>

HelperNext == CallDeterminePriority \/ CallPriorityByPercentage

HelperSpec == HelperInit /\ [][HelperNext]_vars


(***************************************************************************)
(* Vocabulary of the properties.                                           *)
(***************************************************************************)
EventTypes == [i \in 1..Len(events) |-> events[i].type]
Indices(type) == {i \in 1..Len(events) : events[i].type = type}
IsStatus(e, message) == e.type = "status" /\ e.message = message
StatusIndices(message) == {i \in 1..Len(events) : IsStatus(events[i], message)}
IdParses == ~ParseSurveyId(survey_id_param).raised
LastType == IF events = <<>> THEN "" ELSE events[Len(events)].type

(***************************************************************************)
(* C1 as stated: in a streaming request whose fetch does not fail at       *)
(* transport level every warning event is emitted before the API-status    *)
(* status event, and a stream that has ended holds exactly one             *)
(* user_context event.                                                     *)
(***************************************************************************)
C1_WarningsBeforeApiStatus ==
    (Streaming /\ ~FetchRaises) =>
        /\ \A i \in Indices("warning") :
               \E j \in StatusIndices("API Status") : i < j
        /\ (LastType = "end" => Cardinality(Indices("user_context")) = 1)

(***************************************************************************)
(* C1 amended: a streaming request whose fetch does not fail at transport  *)
(* level opens with status(starting), status(fetching), the API-status     *)
(* status event, then the warning events (at most one for each upstream    *)
(* resource), then user_context.  Every warning comes after the API-status *)
(* event and before user_context; user_context is emitted at most once,    *)
(* and exactly once in every stream that ends without an error event.      *)
(***************************************************************************)
C1_OpeningOrder ==
    (Streaming /\ ~FetchRaises) =>
        LET n == Len(events)
        IN /\ n >= 1 => /\ IsStatus(events[1], "Starting survey processing...")
                        /\ events[1].survey_id = survey_id
           /\ n >= 2 => IsStatus(events[2], "Fetching survey data...")
           /\ n >= 3 => IsStatus(events[3], "API Status")
           /\ StatusIndices("API Status") \subseteq {3}
           /\ Indices("warning") \subseteq 4..5
           /\ \A i \in Indices("warning") : \A k \in 4..i : events[k].type = "warning"
           /\ Cardinality(Indices("user_context")) <= 1
           /\ \A i \in Indices("user_context") :
                  /\ i \in 4..6
                  /\ \A k \in 4..(i - 1) : events[k].type = "warning"
           /\ (LastType = "end" /\ Indices("error") = {})
                  => Cardinality(Indices("user_context")) = 1

\* A finished stream with two warnings followed by user_context.
C1_Witness ==
    /\ Streaming
    /\ pc = "done"
    /\ Len(events) >= 6
    /\ events[4].type = "warning"
    /\ events[5].type = "warning"
    /\ events[6].type = "user_context"

(***************************************************************************)
(* C2: a streaming request whose upstream bodies are valid (both 200 with  *)
(* a JSON object, scores a mapping of numbers or JSON text of one, every   *)
(* task score null or an integer), with exactly two qualifying tasks for   *)
(* both of which generation succeeds, emits exactly the event types        *)
(* status, status, status, user_context, status, progress, recommendation, *)
(* progress, recommendation, status, summary, end.                         *)
(***************************************************************************)
ValidBodies ==
    /\ UsableBody(task_resp)
    /\ UsableBody(meta_resp)
    /\ HandleMeta.warning = ""
    /\ meta_scores.form # "non_numeric"
    /\ \A i \in 1..Len(task_body) : task_body[i] # BadScore

QualifyingTasks == {i \in 1..Len(task_body) : Qualifies(task_body[i])}

TwoControlsSucceed ==
    /\ Streaming
    /\ ValidBodies
    /\ Cardinality(QualifyingTasks) = 2
    /\ pc = "done"
    /\ Len(recommendations) = 2

C2_TwoControlSequence ==
    TwoControlsSucceed =>
        EventTypes = <<"status", "status", "status", "user_context", "status",
                       "progress", "recommendation", "progress", "recommendation",
                       "status", "summary", "end">>

C2_Witness ==
    /\ TwoControlsSucceed
    /\ Len(events) = 12


(***************************************************************************)
(* C3: once status(Processing complete!) has been emitted no progress      *)
(* event follows; if no per-control recommendation was produced the next   *)
(* events are status(Generating positive assessment), a recommendation     *)
(* event for the synthesized recommendation, summary, end, and otherwise   *)
(* summary, end; nothing follows end.                                      *)
(***************************************************************************)
C3_ClosingOrder ==
    Streaming =>
        \A c \in StatusIndices("Processing complete!") :
            LET n == Len(events)
                produced == {i \in Indices("recommendation") : i < c}
            IN /\ \A i \in Indices("progress") : i < c
               /\ IF produced = {}
                  THEN /\ n >= c + 1 =>
                            IsStatus(events[c + 1],
                                     "Generating positive assessment via LLM...")
                       /\ n >= c + 2 => events[c + 2].type = "recommendation"
                       /\ n >= c + 3 => events[c + 3].type = "summary"
                       /\ n >= c + 4 => events[c + 4].type = "end"
                       /\ n <= c + 4
                  ELSE /\ n >= c + 1 => events[c + 1].type = "summary"
                       /\ n >= c + 2 => events[c + 2].type = "end"
                       /\ n <= c + 2

(***************************************************************************)
(* C4: under LiveSpec (the client stays connected) every streaming request *)
(* with an integer survey id eventually ends with its generator finished   *)
(* and an end event as the last event; and at every moment an end event,   *)
(* if there is one, is the last event of the stream, so there is at most   *)
(* one.                                                                    *)
(***************************************************************************)
EndIsLast == \A i \in Indices("end") : i = Len(events)

C4_EndsOnce ==
    /\ [](Streaming => EndIsLast)
    /\ (pc = "created") ~> (pc = "done" /\ LastType = "end")

\* A stream that ended by the unexpected-exception path.
C4_Witness ==
    /\ Streaming
    /\ pc = "done"
    /\ ~FetchRaises
    /\ Len(events) >= 2
    /\ events[Len(events) - 1].type = "error"
    /\ LastType = "end"

(***************************************************************************)
(* C5: when a fetch of a streaming request fails at transport level the    *)
(* stream is status(starting), status(fetching), error, end and nothing    *)
(* else, and no generative call is made.                                   *)
(***************************************************************************)
RECURSIVE IsPrefix(_, _)
IsPrefix(p, q) ==
    \/ p = <<>>
    \/ /\ q # <<>>
       /\ Head(p) = Head(q)
       /\ IsPrefix(Tail(p), Tail(q))

C5_FatalFetch ==
    (Streaming /\ FetchRaises) =>
        /\ IsPrefix(EventTypes, <<"status", "status", "error", "end">>)
        /\ (pc = "done" /\ IdParses) =>
               /\ EventTypes = <<"status", "status", "error", "end">>
               /\ IsStatus(events[2], "Fetching survey data...")
               /\ events[3].message = "Request failed"
        /\ genCalls = <<>>
        /\ recommendations = <<>>

C5_Witness ==
    /\ Streaming
    /\ FetchRaises
    /\ pc = "done"
    /\ Len(events) = 4

(***************************************************************************)
(* C6: whenever the pipeline finishes without a fatal fetch error (the     *)
(* blocking result is returned, the stream has its summary) the            *)
(* recommendations list is not empty, and without a per-control            *)
(* Recommendation it holds exactly one positive assessment.                *)
(***************************************************************************)
PerControl(r) == r.assessment_type = ""
Positive(r) == r.assessment_type = "positive_evaluation"

Finished ==
    \/ endpoint = "blocking" /\ pc = "done" /\ "recommendations" \in response.keys
    \/ Streaming /\ Indices("summary") # {}

C6_NeverEmpty ==
    Finished =>
        /\ recommendations # <<>>
        /\ \/ \A k \in 1..Len(recommendations) : PerControl(recommendations[k])
           \/ Len(recommendations) = 1 /\ Positive(recommendations[1])

(***************************************************************************)
(* C7: if every fetched control has score >= 3 or no score (an empty task  *)
(* list included), the finished result has exactly one recommendation and  *)
(* its subcategory is OVERALL-ASSESSMENT.                                  *)
(***************************************************************************)
NonQualifying(t) == t.kind = "null" \/ (t.kind = "int" /\ t.val >= 3)

C7_OverallAssessment ==
    (Finished /\ \A i \in 1..Len(task_body) : NonQualifying(task_body[i])) =>
        /\ Len(recommendations) = 1
        /\ recommendations[1].subcategory = "OVERALL-ASSESSMENT"

(***************************************************************************)
(* C8: a task whose score is 3, 4, 5 or null never gets a generative call, *)
(* is not counted in the announced total, and yields no progress event, no *)
(* recommendation event and no entry of recommendations; a task whose      *)
(* score is 0, 1 or 2 yields at most one entry (and one event).            *)
(***************************************************************************)
Range(q) == {q[k] : k \in 1..Len(q)}
EntriesOf(i) == {k \in 1..Len(recommendations) : recommendations[k].nist_subcategory = i}
EventsOf(i) == {k \in Indices("recommendation") : events[k].data.nist_subcategory = i}

C8_SkippedTasks ==
    /\ \A i \in 1..Len(task_body) :
          /\ NonQualifying(task_body[i]) =>
                /\ i \notin Range(genCalls)
                /\ EntriesOf(i) = {}
                /\ EventsOf(i) = {}
          /\ Qualifies(task_body[i]) =>
                /\ Cardinality(EntriesOf(i)) <= 1
                /\ Cardinality(EventsOf(i)) <= 1
                /\ Cardinality({k \in 1..Len(genCalls) : genCalls[k] = i}) <= 1
    /\ \A k \in StatusIndices("Processing tasks...") :
          events[k].total = Cardinality(QualifyingTasks)
    /\ \A k \in Indices("progress") : events[k].total = Cardinality(QualifyingTasks)
    /\ Streaming =>
          Cardinality(Indices("progress")) = Cardinality({i \in QualifyingTasks : i <= idx})

\* A finished request over a list with a skipped and a qualifying task.
C8_Witness ==
    /\ pc = "done"
    /\ Len(task_body) = 2
    /\ NonQualifying(task_body[1])
    /\ task_body[1].kind = "int"
    /\ Qualifies(task_body[2])
    /\ genCalls = <<2>>
    /\ Len(recommendations) = 1

(***************************************************************************)
(* C9: every per-control Recommendation has the priority of its            *)
(* current_score (Critical for 0 and 1, High for 2), whichever priority    *)
(* the model wrote into its JSON object.                                   *)
(***************************************************************************)
ScorePriority(r) ==
    /\ r.current_score \in 0..2
    /\ r.current_score = PyInt(task_body[r.nist_subcategory]).val
    /\ r.current_score <= 1 => r.priority = "Critical"
    /\ r.current_score = 2 => r.priority = "High"

\* Whatever object the model returns for a task of score 0, 1 or 2.
ModelPriorityOverridden ==
    \A r \in ModelObjects : \A score \in 0..2 :
        LET got == generate_subcategory_recommendation(1, score, r)
        IN got.present /\ got.rec.priority = (IF score <= 1 THEN "Critical" ELSE "High")

C9_PriorityFromScore ==
    /\ \A k \in 1..Len(recommendations) :
          PerControl(recommendations[k]) => ScorePriority(recommendations[k])
    /\ \A k \in Indices("recommendation") :
          PerControl(events[k].data) => ScorePriority(events[k].data)
    /\ ModelPriorityOverridden

\* Both priorities of the per-control path in one result.
C9_Witness ==
    /\ pc = "done"
    /\ \E k \in 1..Len(recommendations) :
          PerControl(recommendations[k]) /\ recommendations[k].priority = "Critical"
    /\ \E k \in 1..Len(recommendations) :
          PerControl(recommendations[k]) /\ recommendations[k].priority = "High"

(***************************************************************************)
(* C10: when every attempt gets non-JSON text, a generate call with budget *)
(* `retries` makes exactly `retries` model calls and returns None; with    *)
(* retries = 1 that is one call and no second attempt.                     *)
(***************************************************************************)
ModelCalls == {k \in 1..Len(gpt_trace) : gpt_trace[k].op = "call"}
PersistentNonJson ==
    /\ pc = "returned"
    /\ gpt_retries >= 1
    /\ \A i \in 1..Len(gpt_outs) : gpt_outs[i].kind = "non_json"

C10_RetriesExactly ==
    PersistentNonJson =>
        /\ Cardinality(ModelCalls) = gpt_retries
        /\ \A k \in ModelCalls : gpt_trace[k].outcome = "non_json"
        /\ gpt_result = None

C10_Witness ==
    /\ PersistentNonJson
    /\ gpt_retries = DefaultRetries
    /\ Cardinality(ModelCalls) = DefaultRetries

(***************************************************************************)
(* C11: a generate call returns to its caller whatever the model does, and *)
(* what it returns is the JSON value of the first attempt whose content    *)
(* parsed, or None when no attempt parsed; it makes at most `retries`      *)
(* model calls.                                                            *)
(***************************************************************************)
Parsed(o) == o.kind \in {"falsy", "non_object", "object"}
ParsedAttempts == {i \in 1..Len(gpt_outs) : Parsed(gpt_outs[i])}
FirstParsed ==
    IF ParsedAttempts = {} THEN None
    ELSE gpt_outs[CHOOSE i \in ParsedAttempts : \A j \in ParsedAttempts : i <= j]

C11_NeverRaises ==
    pc = "returned" =>
        /\ gpt_result = FirstParsed
        /\ gpt_result = None \/ Parsed(gpt_result)
        /\ Cardinality(ModelCalls) = Len(gpt_outs)
        /\ Cardinality(ModelCalls) <= gpt_retries

\* A call whose every attempt failed, the last one with an exception, and a
\* call that parsed on its last attempt after an exception and bad text.
C11_Witness ==
    /\ pc = "returned"
    /\ gpt_retries = DefaultRetries
    /\ Len(gpt_outs) = DefaultRetries
    /\ gpt_outs[1].kind = "exception"
    /\ gpt_outs[2].kind = "non_json"
    /\ gpt_outs[DefaultRetries].kind = "exception"
    /\ gpt_result = None

(***************************************************************************)
(* C12: a request with an integer id and no transport failure in which an  *)
(* upstream resource is degraded (non-success status, empty body, or a     *)
(* body that is no JSON) while the other resource is degraded too or well  *)
(* formed.  The degraded resource is replaced by an empty structure (no    *)
(* category scores, no tasks), the other one is used as fetched, a stream  *)
(* holds one warning event for each degraded resource and no error event   *)
(* and ends with summary, end, and the blocking endpoint answers 200 with  *)
(* user_context and recommendations.  (That the stream does end is C4.)    *)
(***************************************************************************)
Degraded(resp) ==
    /\ ~resp.raised
    /\ resp.status_code # HttpOk \/ resp.body \in {"blank", "garbage"}
WellFormedMeta == UsableBody(meta_resp) /\ meta_scores.form # "non_numeric"
WellFormedTasks ==
    UsableBody(task_resp) /\ \A i \in 1..Len(task_body) : task_body[i] # BadScore
MetaWarnings == {"Empty or non-JSON meta response", "Meta JSON error"}
TaskWarnings == {"Empty or non-JSON task response", "Task JSON error"}
WarningsIn(messages) == {i \in Indices("warning") : events[i].message \in messages}
Handled == pc \in {"b_loop", "done"} \/ Indices("user_context") # {}
Listed == pc \in {"b_loop", "done"} \/ StatusIndices("Processing tasks...") # {}
SummaryThenEnd ==
    /\ Len(events) >= 2
    /\ events[Len(events) - 1].type = "summary"
    /\ LastType = "end"
BlockingResult ==
    /\ response.status = HttpOk
    /\ response.keys = {"user_context", "recommendations"}
    /\ user_context.survey_id = survey_id

OneResourceDegraded ==
    /\ IdParses
    /\ ~FetchRaises
    /\ Degraded(meta_resp) \/ Degraded(task_resp)
    /\ Degraded(meta_resp) \/ WellFormedMeta
    /\ Degraded(task_resp) \/ WellFormedTasks

C12_DegradedResource ==
    OneResourceDegraded =>
        /\ Indices("error") = {}
        /\ pc # "y_error"
        /\ Degraded(meta_resp) =>
              /\ category_scores = EmptyScores
              /\ user_context.level \in {"", "Unknown"}
        /\ Degraded(task_resp) =>
              /\ tasks = <<>>
              /\ Range(genCalls) \subseteq {0}
        /\ (Handled /\ meta_scores.form = "mapping") =>
              category_scores = Scores(TRUE, meta_scores.values)
        /\ (Listed /\ WellFormedTasks) => tasks = task_body
        /\ (Streaming /\ Indices("user_context") # {}) =>
              /\ Cardinality(WarningsIn(MetaWarnings)) =
                     (IF Degraded(meta_resp) THEN 1 ELSE 0)
              /\ Cardinality(WarningsIn(TaskWarnings)) =
                     (IF Degraded(task_resp) THEN 1 ELSE 0)
        /\ (Streaming /\ pc = "done") => SummaryThenEnd
        /\ (endpoint = "blocking" /\ pc = "done") => BlockingResult

\* A finished stream whose metadata fetch got a failure status and whose
\* tasks still gave a per-control recommendation.
C12_Witness ==
    /\ OneResourceDegraded
    /\ Streaming
    /\ pc = "done"
    /\ meta_resp.status_code = ServerError
    /\ WellFormedTasks
    /\ recommendations # <<>>
    /\ PerControl(recommendations[1])
    /\ WarningsIn(MetaWarnings) # {}

(***************************************************************************)
(* C13: when the scores field of the metadata is a string, the mapping it  *)
(* parses to is the category scores; when it does not parse the category   *)
(* scores are the empty mapping, the stream holds the warning "Could not   *)
(* parse scores data", overall maturity is "Unknown", and (the task        *)
(* resource being degraded or well formed) the request completes: no error *)
(* event, summary then end, a 200 result from the blocking endpoint.       *)
(***************************************************************************)
StringScores ==
    /\ IdParses
    /\ ~FetchRaises
    /\ UsableBody(meta_resp)
    /\ meta_scores.form = "string"
    /\ Degraded(task_resp) \/ WellFormedTasks
ContextEvents == {events[i].ctx : i \in Indices("user_context")}
ParseWarnings == WarningsIn({"Could not parse scores data"})

C13_StringScores ==
    StringScores =>
        /\ Indices("error") = {}
        /\ (Streaming /\ pc = "done") => SummaryThenEnd
        /\ (endpoint = "blocking" /\ pc = "done") => BlockingResult
        /\ IF meta_scores.text = GovernText
           THEN /\ Handled => category_scores = Scores(TRUE, <<40>>)
                /\ ParseWarnings = {}
                /\ \A c \in ContextEvents \cup {user_context} :
                       c = NoCtx \/ (c.scores = Scores(TRUE, <<40>>) /\ c.level = "Basic")
           ELSE /\ category_scores = EmptyScores
                /\ (Streaming /\ Indices("user_context") # {}) =>
                       Cardinality(ParseWarnings) = 1
                /\ \A c \in ContextEvents \cup {user_context} :
                       c = NoCtx \/ (c.scores = EmptyScores /\ c.level = "Unknown")
        /\ (pc = "done") => user_context # NoCtx

\* A finished stream whose scores string did not parse.
C13_Witness ==
    /\ StringScores
    /\ Streaming
    /\ pc = "done"
    /\ meta_scores.text # GovernText
    /\ ParseWarnings = {4}
    /\ user_context.level = "Unknown"
    /\ LastType = "end"

(***************************************************************************)
(* C14: in the blocking endpoint, once the survey id has parsed, an        *)
(* unexpected exception inside the pipeline gives a 500 response with an   *)
(* error payload and never a 400 response.                                 *)
(***************************************************************************)
C14_UnexpectedIs500 ==
    (endpoint = "blocking" /\ IdParses /\ pc = "done") =>
        /\ response.status # BadRequest
        /\ response.keys = {"error"} => response.status = ServerError

(***************************************************************************)
(* C15: on every endpoint a survey id that is no integer gets a 400 JSON   *)
(* response with an error payload, and nothing of the pipeline runs: no    *)
(* session.get, no generative call, no stream event, no local assigned.    *)
(***************************************************************************)
NonIntegerId == survey_id_param = "abc"

C15_InvalidId ==
    NonIntegerId =>
        /\ pc \in {"request", "done"}
        /\ pc = "done" => response = JsonResponse(BadRequest, {"error"}, 0)
        /\ pc = "request" => response = NoResponse
        /\ fetched = <<>>
        /\ genCalls = <<>>
        /\ events = <<>>
        /\ survey_id = 0
        /\ locals = <<EmptyScores, NoCtx, <<>>, 0, 0, 0, <<>>>>

\* The SSE endpoint has answered a request for /process_survey_sse/abc.
C15_Witness ==
    /\ NonIntegerId
    /\ endpoint = "sse"
    /\ pc = "done"
    /\ response.status = BadRequest

(***************************************************************************)
(* C16: a blocking request for survey n one of whose fetches failed at     *)
(* transport level returns a payload with an error message and             *)
(* survey_id = n and without a recommendations key; no generative call was *)
(* made, and no fetch was issued after the failed one.                     *)
(***************************************************************************)
C16_BlockingFetchFailure ==
    (endpoint = "blocking" /\ IdParses /\ FetchRaises /\ pc = "done") =>
        /\ "error" \in response.keys
        /\ "survey_id" \in response.keys
        /\ response.survey_id = ParseSurveyId(survey_id_param).val
        /\ "recommendations" \notin response.keys
        /\ genCalls = <<>>
        /\ recommendations = <<>>
        /\ task_resp.raised => fetched = <<"surveyTasks">>

\* The task fetch went through and the metadata fetch failed.
C16_Witness ==
    /\ endpoint = "blocking"
    /\ IdParses
    /\ pc = "done"
    /\ ~task_resp.raised
    /\ meta_resp.raised
    /\ fetched = <<"surveyTasks", "survey">>
    /\ response.survey_id = 42

QualifyingCount == Cardinality(QualifyingTasks)
KthQualifying(k) ==
    CHOOSE i \in QualifyingTasks : Cardinality({j \in QualifyingTasks : j <= i}) = k
Succeeded(i) == EntriesOf(i) # {}

C18_ProgressPerTask ==
    Streaming =>
        LET progress == Indices("progress")
            n == QualifyingCount
        IN /\ \A s \in StatusIndices("Processing tasks...") : events[s].total = n
           /\ \A p \in progress :
                 LET k == Cardinality({q \in progress : q <= p})
                     task == IF k <= n THEN KthQualifying(k) ELSE 0
                     done == Succeeded(task)
                 IN /\ k <= n
                    /\ events[p].current = k
                    /\ events[p].total = n
                    /\ IF p = Len(events)
                       THEN ~done
                       ELSE IF done
                       THEN /\ events[p + 1].type = "recommendation"
                            /\ events[p + 1].data.nist_subcategory = task
                       ELSE /\ events[p + 1].type # "recommendation"
                            /\ task \in Range(genCalls)
                            /\ EventsOf(task) = {}
           /\ \A r \in Indices("recommendation") :
                 PerControl(events[r].data) => events[r - 1].type = "progress"
           /\ StatusIndices("Processing complete!") # {} => Cardinality(progress) = n

\* Two qualifying tasks; generation failed for the first one and succeeded
\* for the second.
C18_Witness ==
    /\ Streaming
    /\ pc = "done"
    /\ QualifyingCount = 2
    /\ genCalls = <<1, 2>>
    /\ ~Succeeded(1)
    /\ Succeeded(2)
    /\ Cardinality(Indices("progress")) = 2
    /\ Cardinality(Indices("recommendation")) = 1

(***************************************************************************)
(* C19: the step that closes a suspended generator, and every step after   *)
(* it, starts no generative call, issues no fetch, adds no recommendation  *)
(* and emits no event; a closed generator stays closed.                    *)
(***************************************************************************)
C19_DisconnectStops ==
    [][(pc = "closed" \/ pc' = "closed") =>
          /\ events' = events
          /\ genCalls' = genCalls
          /\ fetched' = fetched
          /\ recommendations' = recommendations
          /\ pc = "closed" => pc' = "closed"]_vars

\* Closed right after a progress event, before the generative call of that
\* control, with a further qualifying control still to come.
C19_Witness ==
    /\ pc = "closed"
    /\ LastType = "progress"
    /\ Len(genCalls) < processed_tasks
    /\ NextTask(tasks, idx) # 0

(***************************************************************************)
(* C20: within one generate call, an attempt that got non-JSON text and is *)
(* followed by another attempt is followed first by a sleep of the         *)
(* inter-attempt delay.                                                    *)
(***************************************************************************)
C20_DelayAfterNonJson ==
    \A k \in 1..(Len(gpt_trace) - 1) :
        (gpt_trace[k].op = "call" /\ gpt_trace[k].outcome = "non_json") =>
            gpt_trace[k + 1] = SleepEntry(DefaultDelay)

(***************************************************************************)
(* C21: within a generate call an attempt that raised and an attempt that  *)
(* got non-JSON text are handled alike: putting the one in place of the    *)
(* other at any attempt leaves the number of model calls, the sleeps and   *)
(* the returned value as they were.                                        *)
(***************************************************************************)
Exchanged(o) ==
    CASE o.kind = "exception" -> Outcome("non_json", "", "")
      [] o.kind = "non_json" -> Outcome("exception", "", "")
      [] OTHER -> o
ExchangedAt(outs, i) == [outs EXCEPT ![i] = Exchanged(outs[i])]
CallsOf(trace) == Cardinality({k \in 1..Len(trace) : trace[k].op = "call"})
RECURSIVE SleepsOf(_)
SleepsOf(trace) ==
    IF trace = <<>> THEN <<>>
    ELSE IF Head(trace).op = "sleep"
    THEN <<Head(trace).delay>> \o SleepsOf(Tail(trace))
    ELSE SleepsOf(Tail(trace))

C21_FailuresAlike ==
    pc = "returned" =>
        \A i \in 1..Len(gpt_outs) :
            LET other == generate_gpt_recommendation(
                             ExchangedAt(gpt_outs, i), gpt_retries, DefaultDelay)
            IN /\ other.result = gpt_result
               /\ CallsOf(other.trace) = CallsOf(gpt_trace)
               /\ SleepsOf(other.trace) = SleepsOf(gpt_trace)

(***************************************************************************)
(* C22: an attempt whose content is empty (or blank) ends the generate     *)
(* call: None is returned, the attempt is the last entry of the call's     *)
(* trace (no sleep and no further model call follows), whatever budget is  *)
(* left.                                                                   *)
(***************************************************************************)
EmptyReplies == {k \in 1..Len(gpt_trace) : gpt_trace[k].outcome = "empty"}

C22_EmptyEndsCall ==
    (pc = "returned" /\ EmptyReplies # {}) =>
        /\ EmptyReplies = {Len(gpt_trace)}
        /\ gpt_result = None
        /\ gpt_outs[Len(gpt_outs)].kind = "empty"
        /\ Cardinality(ModelCalls) = Len(gpt_outs)

\* Empty content on the first attempt of a call with the default budget.
C22_Witness ==
    /\ pc = "returned"
    /\ gpt_retries = DefaultRetries
    /\ gpt_outs = <<Outcome("empty", "", "")>>
    /\ gpt_trace = <<CallEntry(Outcome("empty", "", ""))>>
    /\ gpt_result = None

(***************************************************************************)
(* C23: the positive assessment is generated exactly when the loop over    *)
(* the tasks has ended with no per-control Recommendation (also when       *)
(* qualifying tasks existed and generation failed for each of them): the   *)
(* call for it is the last generative call, made once, after the last      *)
(* task, with no per-control Recommendation in the list; a finished        *)
(* request without a per-control Recommendation has made it; and no list   *)
(* holds both a per-control and a positive Recommendation.                 *)
(***************************************************************************)
PerControlRecs == {k \in 1..Len(recommendations) : PerControl(recommendations[k])}
PositiveRecs == {k \in 1..Len(recommendations) : Positive(recommendations[k])}
PositiveCalls == {k \in 1..Len(genCalls) : genCalls[k] = 0}

InError ==
    IF Streaming THEN Indices("error") # {}
    ELSE pc = "done" /\ "error" \in response.keys

NoObject(resp) == ~resp.raised /\ resp.status_code = HttpOk /\ resp.body = "json_list"
Malformed ==
    \/ NoObject(meta_resp)
    \/ NoObject(task_resp)
    \/ UsableBody(meta_resp) /\ meta_scores.form = "non_numeric"
    \/ UsableBody(task_resp) /\ \E i \in 1..Len(task_body) : task_body[i] = BadScore

FailedCalls == {i \in Range(genCalls) \ {0} : ~Succeeded(i)}
FromModelObject(r) == r.priority \in Priorities /\ r.subcategory # ""

C25_FailedControlDropped ==
    /\ \A k \in PerControlRecs :
          /\ FromModelObject(recommendations[k])
          /\ recommendations[k].nist_subcategory \in Range(genCalls)
    /\ Len(recommendations) <= Cardinality(Range(genCalls))
    /\ \A i \in FailedCalls :
          /\ EventsOf(i) = {}
          /\ \A j \in QualifyingTasks :
                (j > i /\ (idx > j \/ Finished)) => j \in Range(genCalls)
    /\ (FailedCalls # {} /\ ~Malformed) =>
          /\ ~InError
          /\ (endpoint = "blocking" /\ pc = "done") => BlockingResult

\* A blocking result in which the first control was dropped and the second
\* one got its Recommendation.
C25_Witness ==
    /\ endpoint = "blocking"
    /\ Finished
    /\ genCalls = <<1, 2>>
    /\ FailedCalls = {1}
    /\ Len(recommendations) = 1
    /\ recommendations[1].nist_subcategory = 2

(***************************************************************************)
(* C26: the generation calls of a request are made one after the other in  *)
(* the order of the fetched task list (a call returns within the step that *)
(* makes it, so none overlaps the next; the positive assessment, if any,   *)
(* is the last call), only qualifying controls are called for, and the     *)
(* recommendations list keeps the order of the fetched tasks.              *)
(***************************************************************************)
C26_SequentialInTaskOrder ==
    /\ \A a, b \in 1..Len(genCalls) :
          a < b => /\ genCalls[a] # 0
                   /\ genCalls[b] # 0 => genCalls[a] < genCalls[b]
    /\ \A a \in 1..Len(genCalls) :
          genCalls[a] # 0 => (genCalls[a] \in 1..Len(tasks) /\ genCalls[a] <= idx)
    /\ \A a, b \in PerControlRecs :
          a < b => recommendations[a].nist_subcategory < recommendations[b].nist_subcategory
    /\ \A a \in PerControlRecs :
          \E c \in 1..Len(genCalls) :
              /\ genCalls[c] = recommendations[a].nist_subcategory
              /\ Cardinality({b \in PerControlRecs : b < a}) < c

\* A stream that produced a Recommendation for each of two controls.
C26_Witness ==
    /\ Streaming
    /\ Finished
    /\ genCalls = <<1, 2>>
    /\ Len(recommendations) = 2
    /\ recommendations[1].nist_subcategory = 1
    /\ recommendations[2].nist_subcategory = 2

(***************************************************************************)
(* C27: determine_priority gives Critical for the scores 0 and 1, High for *)
(* 2, Medium for 3 and Low for 4 and 5.                                    *)
(***************************************************************************)
Returned(fn) == pc = "returned" /\ helper.fn = fn

C27_PriorityFromScore ==
    Returned("determine_priority") =>
        /\ helper.arg \in 0..MaxScore
        /\ helper.arg \in {0, 1} => helper.ret = "Critical"
        /\ helper.arg = 2 => helper.ret = "High"
        /\ helper.arg = 3 => helper.ret = "Medium"
        /\ helper.arg \in {4, 5} => helper.ret = "Low"

\* The call for score 1, the upper end of Critical.
C27_Witness ==
    /\ Returned("determine_priority")
    /\ helper.arg = 1
    /\ helper.ret = "Critical"

(***************************************************************************)
(* C28: determine_priority_by_percentage gives, for a whole percentage p   *)
(* of 0..100, Critical when p = 0 or 1 <= p <= 25, High when               *)
(* 26 <= p <= 50, Medium when 51 <= p <= 75 and Low when 76 <= p <= 100.   *)
(***************************************************************************)
C28_PriorityFromPercentage ==
    Returned("determine_priority_by_percentage") =>
        /\ helper.arg \in 0..MaxPercentage
        /\ (helper.arg = 0 \/ helper.arg \in 1..25) => helper.ret = "Critical"
        /\ helper.arg \in 26..50 => helper.ret = "High"
        /\ helper.arg \in 51..75 => helper.ret = "Medium"
        /\ helper.arg \in 76..100 => helper.ret = "Low"

\* The call for 50 percent, the upper end of High.
C28_Witness ==
    /\ Returned("determine_priority_by_percentage")
    /\ helper.arg = 50
    /\ helper.ret = "High"

(***************************************************************************)
(* C29: calculate_overall_maturity gives "Unknown" for an empty mapping    *)
(* and otherwise Advanced for an average of at least 76, Intermediate for  *)
(* at least 51, Basic for at least 26 and Initial below (an average of     *)
(* exactly 50, as of 90 and 10, is Basic); the user_context of the         *)
(* blocking result and of the user_context event holds the category scores *)
(* the pipeline fetched and this label for them.                           *)
(***************************************************************************)
\* The thresholds are whole numbers, so the average reaches one exactly when
\* its integer part does.
MaturityOf(values) ==
    IF values = <<>> THEN "Unknown"
    ELSE LET whole == Sum(values) \div Len(values)
         IN IF whole \in 76..MaxPercentage THEN "Advanced"
            ELSE IF whole \in 51..75 THEN "Intermediate"
            ELSE IF whole \in 26..50 THEN "Basic"
            ELSE "Initial"

\* Mappings of up to two categories with percentages at and around every
\* threshold.
ThresholdPercentages == {0, 10, 25, 26, 50, 51, 75, 76, 90, MaxPercentage}
SampleMappings == SeqsUpTo(ThresholdPercentages, 2)

MaturityOnSamples ==
    \A values \in SampleMappings :
        LET m == calculate_overall_maturity(Scores(TRUE, values))
        IN ~m.raised /\ m.level = MaturityOf(values)

C29_OverallMaturity ==
    /\ MaturityOnSamples
    /\ calculate_overall_maturity(Scores(TRUE, <<90, 10>>)).level = "Basic"
    /\ user_context # NoCtx =>
          /\ user_context.scores = category_scores
          /\ user_context.level = MaturityOf(category_scores.values)
          /\ meta_scores.form = "mapping" => category_scores.values = meta_scores.values
    /\ \A c \in ContextEvents : c = user_context
    /\ (pc = "done" /\ BlockingResult) => user_context # NoCtx
    /\ Indices("summary") # {} => ContextEvents # {}

\* A blocking result for a survey whose two categories stand at 90 and 10.
C29_Witness ==
    /\ endpoint = "blocking"
    /\ Finished
    /\ meta_scores.form = "mapping"
    /\ user_context.scores.values = <<90, 10>>
    /\ user_context.level = "Basic"

(***************************************************************************)
(* C30: in a stream every progress event carries as total the number N     *)
(* announced by status(Processing N tasks...), which is at least 1 (the    *)
(* percentage is never computed with total = 0); current is 1 in the first *)
(* progress event and one more in each next one, and never exceeds total;  *)
(* the percentage is that of current in total; and a stream that reached   *)
(* its summary without error has its last progress event at                *)
(* current = total, 100 percent.                                           *)
(***************************************************************************)
ProgressIndices == Indices("progress")
Announced == {events[k].total : k \in StatusIndices("Processing tasks...")}
FullPercentage == 10 * MaxPercentage     \* 100.0, in tenths of a percent

C30_ProgressEvents ==
    Streaming =>
        /\ \A i \in ProgressIndices :
              LET e == events[i]
              IN /\ Announced = {e.total}
                 /\ \E k \in StatusIndices("Processing tasks...") : k < i
                 /\ e.total >= 1
                 /\ e.current = Cardinality({j \in ProgressIndices : j <= i})
                 /\ e.current >= 1 /\ e.current <= e.total
                 /\ e.percentage = Percentage(e.current, e.total)
                 /\ e.percentage > 0 /\ e.percentage <= FullPercentage
                 /\ e.current = e.total <=> e.percentage = FullPercentage
        /\ total_tasks = 0 => ProgressIndices = {}
        /\ (Indices("summary") # {} /\ Indices("error") = {}) =>
              /\ Cardinality(ProgressIndices) = total_tasks
              /\ \A i \in ProgressIndices :
                    (\A j \in ProgressIndices : j <= i) =>
                        events[i].current = events[i].total

\* A finished stream over two qualifying controls: 50.0 then 100.0 percent.
C30_Witness ==
    /\ Streaming
    /\ Finished
    /\ Cardinality(ProgressIndices) = 2
    /\ \E i, j \in ProgressIndices :
          /\ i < j
          /\ events[i].current = 1 /\ events[i].percentage = 500
          /\ events[j].current = 2 /\ events[j].percentage = FullPercentage

(***************************************************************************)
(* C31: the summary event of a stream reports as total_recommendations the *)
(* number of recommendation events the stream emitted before it, the one   *)
(* of the positive assessment included; none is emitted after it.          *)
(***************************************************************************)
RecommendationsBefore(s) == {i \in Indices("recommendation") : i < s}

C31_SummaryCount ==
    Streaming =>
        \A s \in Indices("summary") :
            /\ events[s].total_recommendations = Cardinality(RecommendationsBefore(s))
            /\ RecommendationsBefore(s) = Indices("recommendation")
            /\ events[s].total_recommendations = Len(recommendations)

\* A summary of 1 after the recommendation event of the positive assessment.
C31_Witness ==
    /\ Streaming
    /\ pc = "done"
    /\ \E s \in Indices("summary") :
          /\ events[s].total_recommendations = 1
          /\ events[s - 1].type = "recommendation"
          /\ Positive(events[s - 1].data)

(***************************************************************************)
(* C32: for the same survey id, the same upstream responses and the same   *)
(* answers of the generative model, when neither request ends in Error the *)
(* recommendations list of the blocking result is, in order, the data of   *)
(* the recommendation events of the stream, and the user_context of the    *)
(* blocking result is the data of the stream's user_context event (ids and *)
(* timestamps are not part of the modelled records); the two requests make *)
(* the same generative calls and one ends in Error exactly when the other  *)
(* does.                                                                   *)
(***************************************************************************)
OfType(evs, type) == SelectSeq(evs, LAMBDA e : e.type = type)
StreamedPayloads ==
    LET sent == OfType(twin.events, "recommendation")
    IN [k \in 1..Len(sent) |-> sent[k].data]
StreamedContexts ==
    LET sent == OfType(twin.events, "user_context")
    IN [k \in 1..Len(sent) |-> sent[k].ctx]
StreamedOk == OfType(twin.events, "error") = <<>> /\ OfType(twin.events, "summary") # <<>>
BlockingSecond == twin.mode = "replay" /\ endpoint = "blocking"

C32_BlockingMatchesStream ==
    BlockingSecond =>
        /\ (StreamedOk /\ pc = "b_loop") =>
              /\ IsPrefix(recommendations, StreamedPayloads)
              /\ Len(genCalls) <= Len(twin.results)
        /\ pc = "done" =>
              /\ StreamedOk <=> BlockingResult
              /\ BlockingResult =>
                    /\ recommendations = StreamedPayloads
                    /\ StreamedContexts = <<user_context>>
                    /\ Len(genCalls) = Len(twin.results)

\* A blocking result with two Recommendations after a stream that sent them.
C32_Witness ==
    /\ BlockingSecond
    /\ pc = "done"
    /\ BlockingResult
    /\ Len(recommendations) = 2
    /\ recommendations = StreamedPayloads
    /\ StreamedContexts = <<user_context>>

(***************************************************************************)
(* C33: a stream never holds both an error event and a summary event.  An  *)
(* error event comes after no summary and no end marker, the generator is  *)
(* then at the end marker, which is the only event that can follow and the *)
(* last one; whatever was emitted before the error event, progress and     *)
(* recommendation events included, stays in the stream as it was.          *)
(***************************************************************************)
ErrorIndices == Indices("error")

ErrorClosesStream ==
    Streaming =>
        /\ ErrorIndices = {} \/ Indices("summary") = {}
        /\ \A i \in ErrorIndices :
              /\ \A j \in 1..(i - 1) : events[j].type \notin {"summary", "end", "error"}
              /\ IF i = Len(events)
                 THEN pc \in {"y_error", "closed"}
                 ELSE /\ i + 1 = Len(events)
                      /\ events[i + 1] = Ev("end", "")
                      /\ pc \in {"done", "closed"}

EmittedStays ==
    /\ IsPrefix(events, events')
    /\ (ErrorIndices # {} /\ events' # events) => events' = Append(events, Ev("end", ""))

Sleeps == {k \in 1..Len(gpt_trace) : gpt_trace[k].op = "sleep"}

C34_DelayBetweenAttempts ==
    pc = "returned" =>
        /\ \A k \in Sleeps :
              /\ k > 1
              /\ gpt_trace[k - 1] = CallEntry(Outcome("exception", "", ""))
              /\ k < Len(gpt_trace)
              /\ gpt_trace[k + 1].op = "call"
              /\ gpt_trace[k].delay = DefaultDelay
              /\ Cardinality({c \in ModelCalls : c < k}) < gpt_retries
        /\ Cardinality(ModelCalls) <= gpt_retries
        /\ Cardinality(Sleeps) < gpt_retries \/ (gpt_retries = 0 /\ Sleeps = {})
        /\ Cardinality(Sleeps) =
              Cardinality({c \in ModelCalls : /\ gpt_trace[c].outcome = "exception"
                                               /\ Cardinality({d \in ModelCalls : d <= c})
                                                      < gpt_retries})

\* The model raised at every attempt of a call with the default budget:
\* three calls, a sleep after the first and after the second, none after
\* the third.
C34_Witness ==
    /\ pc = "returned"
    /\ gpt_retries = DefaultRetries
    /\ Cardinality(ModelCalls) = DefaultRetries
    /\ Sleeps = {2, 4}
    /\ Len(gpt_trace) = 5
    /\ gpt_trace[5] = CallEntry(Outcome("exception", "", ""))
    /\ gpt_result = None

====
